---- MODULE Spec2Model ----
(***************************************************************************)
(* A model of FontEngine (src/client/fontengine.cpp): the per-mode font    *)
(* cache, mode and size normalisation, the outline (freetype) and the      *)
(* discrete-asset (bitmap) creation strategies, settings-change handling   *)
(* and cache teardown.                                                     *)
(*                                                                         *)
(* Paths are sequences of one-character strings, so that the string        *)
(* operations of initSimpleFont (find_last_of, substr, lowercase, the      *)
(* decimal formatting of the probed size) are computed, not assumed.       *)
(***************************************************************************)
EXTENDS Integers, Sequences, FiniteSets, TLC

VARIABLES
    settings,        \* the Settings object: key -> value
    files,           \* the file system / asset store: path -> kind of content
    needs_fallback,  \* is_yes(gettext("needs_fallback_font")), fixed by the locale
    use_freetype,    \* the build flag USE_FREETYPE
    callbacks,       \* setting names with font_setting_changed registered
    m_currentMode,
    m_default_size,
    m_font_cache,    \* set of entries [mode, size, font]: the five std::map tables
    envFonts,        \* paths whose font the IGUIEnvironment has loaded and keeps
    skinFont,        \* m_env->getSkin()->getFont()
    nextHandle,      \* number of outline font objects created so far
    drops,           \* handle -> number of drop() calls made on it by cleanCache
    status,          \* "running", "abort_..." (abort()), "exception" or "destroyed"
    last,            \* what the most recent operation did
    prev,            \* what the operation before it did
    ops              \* number of operations since construction

vars == <<settings, files, needs_fallback, use_freetype, callbacks,
          m_currentMode, m_default_size, m_font_cache, envFonts, skinFont,
          nextHandle, drops, status, last, prev, ops>>

-----------------------------------------------------------------------------
(* Bounds of the exploration *)

\* operations explored after construction
MaxOps == 2
\* files in the asset store of the main specification
MaxFiles == 1
\* files in the asset store of the search specification
MaxSearchFiles == 2
\* largest logical size requested in the search specification
MaxSearchSize == 3
\* operations explored after construction in the measurement specification
MaxMeasureOps == 2
\* operations explored after construction in the switching specification
MaxSwitchOps == 3

-----------------------------------------------------------------------------
(* Font modes and sizes *)

FM_Standard    == "FM_Standard"
FM_Mono        == "FM_Mono"
FM_Fallback    == "FM_Fallback"
FM_Simple      == "FM_Simple"
FM_SimpleMono  == "FM_SimpleMono"
FM_Unspecified == "FM_Unspecified"

\* the modes that index m_font_cache and m_default_size
CacheModes == {FM_Standard, FM_Mono, FM_Fallback, FM_Simple, FM_SimpleMono}
RequestModes == CacheModes \cup {FM_Unspecified}

\* A u32 is held as the integer with the same 32-bit pattern read as two's
\* complement (0xFFFFFFFF is -1, 0xFFFFFFFE is -2, ...): the checker's integers
\* are 32 bits wide, and on these representatives u32 addition is integer
\* addition.  Only printing (DecimalU32) reads the pattern as unsigned.
FONT_SIZE_UNSPECIFIED == -1
DEFAULT_FONT_SIZE == 10
MAX_FONT_SIZE_OFFSET == 10

-----------------------------------------------------------------------------
(* Strings *)

NPOS == -1

RECURSIVE find_last_of(_, _, _)
find_last_of(s, c, i) ==
    IF i = 0 THEN NPOS
    ELSE IF s[i] = c THEN i - 1
    ELSE find_last_of(s, c, i - 1)

\* position (from 0) of the last c in s, or NPOS
FindLastOf(s, c) == find_last_of(s, c, Len(s))

\* s.substr(pos): the characters from position pos (from 0) to the end
SubstrFrom(s, pos) == SubSeq(s, pos + 1, Len(s))
\* s.substr(0, n)
SubstrTo(s, n) == SubSeq(s, 1, IF n < Len(s) THEN n ELSE Len(s))

LowerChar(c) ==
    CASE c = "P" -> "p" [] c = "N" -> "n" [] c = "G" -> "g"
      [] c = "X" -> "x" [] c = "M" -> "m" [] c = "L" -> "l"
      [] c = "T" -> "t" [] c = "F" -> "f"
      [] OTHER -> c

lowercase(s) == [i \in 1..Len(s) |-> LowerChar(s[i])]

DigitChar(d) == <<"0", "1", "2", "3", "4", "5", "6", "7", "8", "9">>[d + 1]

RECURSIVE Decimal(_)
\* operator<< of an unsigned value
Decimal(n) ==
    IF n < 10 THEN <<DigitChar(n)>>
    ELSE Decimal(n \div 10) \o <<DigitChar(n % 10)>>

Pad6(n) == [i \in 1..6 |-> DigitChar((n \div (10 ^ (6 - i))) % 10)]

\* operator<< of a u32: 2^32 = 4294 * 10^6 + 967296, so the pattern n < 0 prints
\* as 2^32 + n, computed in two limbs of six decimal digits
DecimalU32(n) ==
    IF n >= 0 THEN Decimal(n)
    ELSE LET lo == 967296 + n
         IN  Decimal(4294 + (lo \div 1000000)) \o Pad6(lo % 1000000)

EXT_PNG == <<".", "p", "n", "g">>
EXT_XML == <<".", "x", "m", "l">>
EXT_TTF == <<".", "t", "t", "f">>
font_extensions == <<EXT_PNG, EXT_XML>>

-----------------------------------------------------------------------------
(* Font handles: the IGUIFont pointers *)

NullFont       == [kind |-> "null",    path |-> <<>>, id |-> 0]
\* the font the skin holds before the engine installs one
BuiltinFont    == [kind |-> "builtin", path |-> <<>>, id |-> 0]
\* the object the GUI environment keeps for a font file it has loaded
BitmapFont(p)  == [kind |-> "bitmap",  path |-> p,    id |-> 0]
\* a new object from CGUITTFont::createTTFont
TTFont(p, n)   == [kind |-> "ttf",     path |-> p,    id |-> n]

-----------------------------------------------------------------------------
(* Collaborators *)

\* fs::PathExists
PathExists(F, path) == path \in DOMAIN F

\* IGUIEnvironment::getFont(filename): the environment returns the font it
\* already holds under that name, otherwise loads the file and keeps the font
EnvGetFont(F, env, path) ==
    IF path \in env THEN [font |-> BitmapFont(path), env |-> env]
    ELSE IF PathExists(F, path) /\ F[path] = "bitmap"
         THEN [font |-> BitmapFont(path), env |-> env \cup {path}]
         ELSE [font |-> NullFont, env |-> env]

\* CGUITTFont::createTTFont(env, path, size, ...): a new object or NULL
CreateTTFont(F, path, n) ==
    IF PathExists(F, path) /\ F[path] = "ttf" THEN TTFont(path, n) ELSE NullFont

\* RenderingEngine::getDisplayDensity(), in multiples of the base density
DisplayDensity(S) == S.screen_dpi

\* std::floor(density * gui_scaling * basesize) as u32; gui_scaling is held in
\* halves (1 is 0.5, 2 is 1.0), so the product is exact
EffectiveSize(S, basesize) == (DisplayDensity(S) * S.gui_scaling * basesize) \div 2

-----------------------------------------------------------------------------
(* Settings *)

\* Settings::get(setting_prefix + "font_path")
FontPathSetting(S, prefix) ==
    CASE prefix = "fallback_" -> S.fallback_font_path
      [] prefix = "mono_"     -> S.mono_font_path
      [] OTHER                -> S.font_path

PATH_DEFAULT          == <<"d", ".", "t", "t", "f">>
PATH_DEFAULT_FALLBACK == <<"d", "b", ".", "t", "t", "f">>
PATH_DEFAULT_MONO     == <<"d", "m", ".", "t", "t", "f">>

\* Settings::getDefault(setting_prefix + "font_path"): the compiled-in default
FontPathDefault(prefix) ==
    CASE prefix = "fallback_" -> PATH_DEFAULT_FALLBACK
      [] prefix = "mono_"     -> PATH_DEFAULT_MONO
      [] OTHER                -> PATH_DEFAULT

-----------------------------------------------------------------------------
(* The engine.  An operation is a function of the engine record w            *)
(*   cur, def, cache, env, skin, next, drops, status                         *)
(* whose remaining fields note what the creation strategies did during the   *)
(* operation: created (strategy invocations), strategy, cmode and csize (the *)
(* arguments of the last invocation), probes (paths tested by the sized      *)
(* search), direct (the configured path itself was tested) and tried (paths  *)
(* given to the outline backend).                                            *)

Running(w) == w.status = "running"

Lookup(cache, mode, size) ==
    IF \E e \in cache : e.mode = mode /\ e.size = size
    THEN (CHOOSE e \in cache : e.mode = mode /\ e.size = size).font
    ELSE NullFont

\* a cache whose find never succeeds
CachedNever(cache, mode, size) == FALSE

Cached(cache, mode, size) == \E e \in cache : e.mode = mode /\ e.size = size

\* an insertion that empties the table of the mode first
CacheInsertEvicting(cache, mode, size, font) ==
    {e \in cache : e.mode # mode}
        \cup {[mode |-> mode, size |-> size, font |-> font]}

\* m_font_cache[mode][size] = font
CacheInsert(cache, mode, size, font) ==
    {e \in cache : ~(e.mode = mode /\ e.size = size)}
        \cup {[mode |-> mode, size |-> size, font |-> font]}

\* the handles the cache has ever held, with the drop() calls made on each
NoteInserted(d, font) == IF font \in DOMAIN d THEN d ELSE d @@ (font :> 0)

\* the zig-zag with the signs exchanged
ZSignFlipped(zoffset) == IF zoffset % 2 = 1 THEN 1 ELSE -1

ZSign(zoffset)   == IF zoffset % 2 = 1 THEN -1 ELSE 1
ZOffset(zoffset) == zoffset \div 2

\* path << basename << "_" << (size + offset * sign) << ext
CandidatePath(basename, size, zoffset, ext) ==
    basename \o <<"_">> \o DecimalU32(size + ZOffset(zoffset) * ZSign(zoffset)) \o ext

SearchLimit == MAX_FONT_SIZE_OFFSET * 2

\* the body of the inner loop once the path exists: load it; a font ends the
\* inner loop ("break"), a failure goes on to the next extension
RECURSIVE ExtLoop(_, _, _, _, _, _, _)
Loaded(zoffset, k, basename, size, F, r, probes) ==
    IF r.font # NullFont
    THEN [font |-> r.font, env |-> r.env, probes |-> probes]
    ELSE ExtLoop(zoffset, k + 1, basename, size, F, r.env, probes)

\* "if (!fs::PathExists(path.str())) continue;"
Probe(zoffset, k, basename, size, F, env, probes, path) ==
    IF ~PathExists(F, path)
    THEN ExtLoop(zoffset, k + 1, basename, size, F, env, Append(probes, path))
    ELSE Loaded(zoffset, k, basename, size, F, EnvGetFont(F, env, path),
                Append(probes, path))

\* for (const std::string &ext : font_extensions), from the k-th extension on
ExtLoop(zoffset, k, basename, size, F, env, probes) ==
    IF k > Len(font_extensions)
    THEN [font |-> NullFont, env |-> env, probes |-> probes]
    ELSE Probe(zoffset, k, basename, size, F, env, probes,
               CandidatePath(basename, size, zoffset, font_extensions[k]))

\* "if (font) break;" after the inner loop, else the next zoffset
RECURSIVE SearchFrom(_, _, _, _, _, _)
AfterExt(zoffset, basename, size, F, r) ==
    IF r.font # NullFont THEN r
    ELSE SearchFrom(zoffset + 1, basename, size, F, r.env, r.probes)

\* for (s32 zoffset = 0; zoffset < MAX_FONT_SIZE_OFFSET * 2; zoffset++), from
\* zoffset on
SearchFrom(zoffset, basename, size, F, env, probes) ==
    IF zoffset >= SearchLimit
    THEN [font |-> NullFont, env |-> env, probes |-> probes]
    ELSE AfterExt(zoffset, basename, size, F,
                  ExtLoop(zoffset, 1, basename, size, F, env, probes))

\* a strategy that gives up after the sized search
DirectLoadSkipped(F, env, font_path) == [font |-> NullFont, env |-> env]

\* "try name direct"
DirectLoad(F, env, font_path) ==
    IF PathExists(F, font_path) THEN EnvGetFont(F, env, font_path)
    ELSE [font |-> NullFont, env |-> env]

\* a store that also records the null result of a failed search
SimpleStoreAlways(w, mode, basesize, probes, direct, r) ==
    [w EXCEPT !.probes = probes,
              !.direct = direct,
              !.env    = r.env,
              !.cache  = CacheInsert(@, mode, basesize, r.font)]

\* "if (font) m_font_cache[mode][basesize] = font", with the notes of the search
SimpleStore(w, mode, basesize, probes, direct, r) ==
    [w EXCEPT !.probes = probes,
              !.direct = direct,
              !.env    = r.env,
              !.cache  = IF r.font # NullFont
                         THEN CacheInsert(@, mode, basesize, r.font) ELSE @,
              !.drops  = IF r.font # NullFont
                         THEN NoteInserted(@, r.font) ELSE @]

\* after the sized search: "try name direct" when it found nothing
SimpleFinish(w, F, font_path, basesize, mode, found) ==
    SimpleStore(w, mode, basesize, found.probes, found.font = NullFont,
                IF found.font = NullFont
                THEN DirectLoad(F, found.env, font_path)
                ELSE [font |-> found.font, env |-> found.env])

\* initSimpleFont once basename and basesize are settled
SimpleSized(w, S, F, font_path, basename, basesize, mode) ==
    SimpleFinish(w, F, font_path, basesize, mode,
                 SearchFrom(0, basename, EffectiveSize(S, basesize), F,
                            w.env, <<>>))

\* the part of initSimpleFont after the ".ttf" test
SimpleSearch(w, S, F, font_path, pos_dot, ending, basesize, mode) ==
    SimpleSized(w, S, F, font_path,
                IF ending = EXT_XML \/ ending = EXT_PNG
                THEN SubstrTo(font_path, pos_dot) ELSE font_path,
                IF basesize = FONT_SIZE_UNSPECIFIED
                THEN DEFAULT_FONT_SIZE ELSE basesize,
                mode)

\* the string handling at the head of initSimpleFont: substr(npos) throws
\* std::out_of_range, which nothing in the engine catches
SimpleEnding(w, S, F, font_path, pos_dot, ending, basesize, mode) ==
    IF ending = EXT_TTF
    THEN w
    ELSE SimpleSearch(w, S, F, font_path, pos_dot, ending, basesize, mode)

SimpleDot(w, S, F, font_path, pos_dot, basesize, mode) ==
    IF pos_dot = NPOS
    THEN [w EXCEPT !.status = "exception"]
    ELSE SimpleEnding(w, S, F, font_path, pos_dot,
                      lowercase(SubstrFrom(font_path, pos_dot)), basesize, mode)

SimplePath(w, S, F, font_path, basesize, mode) ==
    SimpleDot(w, S, F, font_path, FindLastOf(font_path, "."), basesize, mode)

\* a creation strategy is entered: the notes start afresh
Entered(w, strategy, basesize, mode) ==
    [w EXCEPT !.created = @ + 1, !.strategy = strategy,
              !.cmode = mode, !.csize = basesize,
              !.probes = <<>>, !.direct = FALSE, !.tried = <<>>]

SimpleBody(w, S, F, basesize, mode) ==
    IF ~(mode = FM_Simple \/ mode = FM_SimpleMono)
    THEN [w EXCEPT !.status = "abort_assert"]
    ELSE SimplePath(w, S, F,
                    IF mode = FM_SimpleMono THEN S.mono_font_path
                    ELSE S.font_path,
                    basesize, mode)

\* FontEngine::initSimpleFont
initSimpleFont(w, S, F, basesize, mode) ==
    SimpleBody(Entered(w, "simple", basesize, mode), S, F, basesize, mode)

\* the switch on mode in initFont
SettingPrefix(mode) ==
    CASE mode = FM_Fallback -> "fallback_"
      [] mode = FM_Mono \/ mode = FM_SimpleMono -> "mono_"
      [] OTHER -> ""

\* the candidate list with its first two entries exchanged
FallbackSettingsSwapped(S, prefix) ==
    << S.fallback_font_path,
       FontPathSetting(S, prefix),
       FontPathDefault(prefix) >>

\* std::string fallback_settings[]
FallbackSettings(S, prefix) ==
    << FontPathSetting(S, prefix),
       S.fallback_font_path,
       FontPathDefault(prefix) >>

RECURSIVE TryPaths(_, _, _, _, _, _)
\* the loop over fallback_settings, from the i-th path on; "give up" aborts
TryPaths(w, F, paths, i, basesize, mode) ==
    IF i > Len(paths)
    THEN [w EXCEPT !.status = "abort_no_font"]
    ELSE LET font == CreateTTFont(F, paths[i], w.next)
         IN  IF font # NullFont
             THEN [w EXCEPT !.tried = Append(@, paths[i]),
                            !.cache = CacheInsert(@, mode, basesize, font),
                            !.drops = NoteInserted(@, font),
                            !.next  = @ + 1]
             ELSE TryPaths([w EXCEPT !.tried = Append(@, paths[i])],
                           F, paths, i + 1, basesize, mode)

\* initFont without the test of the pixel size
OutlineCreateUnchecked(w, S, F, uf, basesize, mode) ==
    IF uf
    THEN TryPaths(w, F, FallbackSettings(S, SettingPrefix(mode)), 1,
                  basesize, mode)
    ELSE [w EXCEPT !.status = "abort_no_freetype"]

\* initFont from the computation of the pixel size on
OutlineCreate(w, S, F, uf, basesize, mode) ==
    IF EffectiveSize(S, basesize) = 0
    THEN [w EXCEPT !.status = "abort_zero_size"]
    ELSE IF uf
    THEN TryPaths(w, F, FallbackSettings(S, SettingPrefix(mode)), 1,
                  basesize, mode)
    ELSE [w EXCEPT !.status = "abort_no_freetype"]

OutlineBody(w, S, F, uf, basesize, mode) ==
    IF mode = FM_Unspecified \/ basesize = FONT_SIZE_UNSPECIFIED
    THEN [w EXCEPT !.status = "abort_assert"]
    ELSE IF Cached(w.cache, mode, basesize)
    THEN w
    ELSE OutlineCreate(w, S, F, uf, basesize, mode)

\* FontEngine::initFont
initFont(w, S, F, uf, basesize, mode) ==
    OutlineBody(Entered(w, "outline", basesize, mode), S, F, uf, basesize, mode)

\* a getFont that never forces a discrete mode
NormalizeModeKeep(mode, cur) == IF mode = FM_Unspecified THEN cur ELSE mode

\* the mode getFont looks up, from the requested mode and m_currentMode
NormalizeMode(mode, cur) ==
    IF mode = FM_Unspecified THEN cur
    ELSE IF cur = FM_Simple
    THEN (IF mode = FM_Mono \/ mode = FM_SimpleMono
          THEN FM_SimpleMono ELSE FM_Simple)
    ELSE mode

\* a getFont that passes the requested size on as it is
NormalizeSizeKeep(font_size, mode, def) == font_size

\* "Fallback to default size"
NormalizeSize(font_size, mode, def) ==
    IF font_size = FONT_SIZE_UNSPECIFIED THEN def[mode] ELSE font_size

\* a getFont that dispatches every miss to the outline strategy
CreateFontOutline(w, S, F, uf, font_size, mode) ==
    initFont(w, S, F, uf, font_size, mode)

\* the creation getFont dispatches to on a cache miss
CreateFont(w, S, F, uf, font_size, mode) ==
    IF mode = FM_Simple \/ mode = FM_SimpleMono
    THEN initSimpleFont(w, S, F, font_size, mode)
    ELSE initFont(w, S, F, uf, font_size, mode)

\* the end of getFont: the second cache.find and the return
Found(w, mode, font_size, hit) ==
    [w |-> w, kmode |-> mode, ksize |-> font_size, hit |-> hit,
     font |-> IF Running(w) THEN Lookup(w.cache, mode, font_size)
              ELSE NullFont]

\* getFont from the first cache.find on
FindOrCreate(w, S, F, uf, font_size, mode, hit) ==
    Found(IF hit THEN w ELSE CreateFont(w, S, F, uf, font_size, mode),
          mode, font_size, hit)

GetSized(w, S, F, uf, font_size, mode) ==
    FindOrCreate(w, S, F, uf, font_size, mode, Cached(w.cache, mode, font_size))

GetInMode(w, S, F, uf, font_size, mode) ==
    GetSized(w, S, F, uf, NormalizeSize(font_size, mode, w.def), mode)

\* FontEngine::getFont: the engine afterwards, the key used and the result
getFont(w, S, F, uf, font_size, mode) ==
    GetInMode(w, S, F, uf, font_size, NormalizeMode(mode, w.cur))

\* number of cache entries that hold font
Holders(cache, font) == Cardinality({e \in cache : e.font = font})

\* a flush of the table of the active mode only
cleanCacheActiveOnly(w) ==
    [w EXCEPT !.drops = [f \in DOMAIN w.drops |->
                            w.drops[f] + Holders({e \in w.cache : e.mode = w.cur}, f)],
              !.cache = {e \in w.cache : e.mode # w.cur}]

\* FontEngine::cleanCache: drop() once per entry, then clear every table
cleanCache(w) ==
    [w EXCEPT !.drops = [f \in DOMAIN w.drops |-> w.drops[f] + Holders(w.cache, f)],
              !.cache = {}]

\* a measurement that never falls back to the skin's font
MeasuredWithoutSkin(r) ==
    IF ~Running(r.w) THEN [r EXCEPT !.font = NullFont] @@ [used |-> NullFont]
    ELSE r @@ [used |-> r.font]

\* "use current skin font as fallback", then FATAL_ERROR_IF(font == NULL)
MeasuredWith(r) ==
    IF ~Running(r.w) THEN [r EXCEPT !.font = NullFont] @@ [used |-> NullFont]
    ELSE IF r.font # NullFont THEN r @@ [used |-> r.font]
    ELSE IF r.w.skin # NullFont THEN r @@ [used |-> r.w.skin]
    ELSE [r EXCEPT !.w.status = "abort_no_measure_font"] @@ [used |-> NullFont]

\* FontEngine::getTextHeight, getTextWidth and getLineHeight up to the
\* measurement: the font whose getDimension is called
getTextFont(w, S, F, uf, font_size, mode) ==
    MeasuredWith(getFont(w, S, F, uf, font_size, mode))

\* FontEngine::updateFontCache
updateFontCache(w, S, F, uf) ==
    getFont(w, S, F, uf, FONT_SIZE_UNSPECIFIED, FM_Unspecified).w

\* FATAL_ERROR_IF(font == NULL, "Could not create/get font")
CheckSkin(w) ==
    IF w.skin = NullFont THEN [w EXCEPT !.status = "abort_no_skin_font"] ELSE w

\* "if (font) m_env->getSkin()->setFont(font)"
InstallSkinFont(r) ==
    IF ~Running(r.w) THEN r.w
    ELSE CheckSkin(IF r.font # NullFont THEN [r.w EXCEPT !.skin = r.font]
                   ELSE r.w)

\* FontEngine::updateSkin
updateSkin(w, S, F, uf) ==
    InstallSkinFont(getFont(w, S, F, uf, FONT_SIZE_UNSPECIFIED, FM_Unspecified))

\* the mode and default sizes readSettings computes
SettingsMode(S, nf, uf) ==
    IF uf /\ S.freetype
    THEN (IF nf THEN FM_Fallback ELSE FM_Standard)
    ELSE FM_Simple

SettingsDefaults(def, S, uf) ==
    LET d1 == IF uf /\ S.freetype
              THEN [def EXCEPT ![FM_Standard] = S.font_size,
                               ![FM_Fallback] = S.fallback_font_size,
                               ![FM_Mono]     = S.mono_font_size]
              ELSE def
    IN  [d1 EXCEPT ![FM_Simple]     = S.font_size,
                   ![FM_SimpleMono] = S.mono_font_size]

\* the assignments at the head of readSettings
ApplySettings(w, S, nf, uf) ==
    [w EXCEPT !.cur = SettingsMode(S, nf, uf),
              !.def = SettingsDefaults(@, S, uf)]

\* updateSkin runs unless updateFontCache ended the process
ThenUpdateSkin(w, S, F, uf) ==
    IF ~Running(w) THEN w ELSE updateSkin(w, S, F, uf)

\* FontEngine::readSettings
readSettings(w, S, F, nf, uf) ==
    ThenUpdateSkin(updateFontCache(cleanCache(ApplySettings(w, S, nf, uf)),
                                   S, F, uf),
                   S, F, uf)

\* the registerChangedCallback calls of the constructor
RegisteredCallbacks(cur) ==
    (IF cur = FM_Standard
     THEN {"font_size", "font_path", "font_shadow", "font_shadow_alpha"}
     ELSE IF cur = FM_Fallback
     THEN {"fallback_font_size", "fallback_font_path",
           "fallback_font_shadow", "fallback_font_shadow_alpha"}
     ELSE {})
    \cup {"mono_font_path", "mono_font_size", "screen_dpi", "gui_scaling"}

\* the engine's members before the constructor's body runs
NewEngine ==
    [cur |-> FM_Unspecified,
     def |-> [m \in CacheModes |-> FONT_SIZE_UNSPECIFIED],
     cache |-> {}, env |-> {}, skin |-> BuiltinFont, next |-> 0,
     drops |-> [f \in {} |-> 0], status |-> "running",
     created |-> 0, strategy |-> "none", cmode |-> FM_Unspecified,
     csize |-> FONT_SIZE_UNSPECIFIED, probes |-> <<>>, direct |-> FALSE,
     tried |-> <<>>]

\* FontEngine::FontEngine
Construct(S, F, nf, uf) == readSettings(NewEngine, S, F, nf, uf)

-----------------------------------------------------------------------------
(* The state machine *)

\* the engine record of the current state, with the notes cleared
Engine ==
    [cur |-> m_currentMode, def |-> m_default_size, cache |-> m_font_cache,
     env |-> envFonts, skin |-> skinFont, next |-> nextHandle,
     drops |-> drops, status |-> status,
     created |-> 0, strategy |-> "none", cmode |-> FM_Unspecified,
     csize |-> FONT_SIZE_UNSPECIFIED, probes |-> <<>>, direct |-> FALSE,
     tried |-> <<>>]

\* what an operation did: its arguments, the key getFont looked up, its
\* result, the notes of the engine record, whether readSettings ran, whether
\* a setting got another value, the font a measurement used, and the cache and
\* drop counts it started from
Event(op, name, size, mode, r, w, handled, w0) ==
    [op |-> op, name |-> name, size |-> size, mode |-> mode,
     kmode |-> r.kmode, ksize |-> r.ksize, hit |-> r.hit, font |-> r.font,
     created |-> w.created, strategy |-> w.strategy, cmode |-> w.cmode,
     csize |-> w.csize, probes |-> w.probes, direct |-> w.direct,
     tried |-> w.tried, handled |-> handled, changed |-> FALSE,
     used |-> NullFont,
     before |-> w0.cache, dropsBefore |-> w0.drops, status |-> w.status]

NoResult ==
    [kmode |-> FM_Unspecified, ksize |-> FONT_SIZE_UNSPECIFIED,
     hit |-> FALSE, font |-> NullFont]

NoEvent ==
    Event("none", "", FONT_SIZE_UNSPECIFIED, FM_Unspecified, NoResult,
          NewEngine, FALSE, NewEngine)

\* the engine's part of the next state
Becomes(w) ==
    /\ m_currentMode'  = w.cur
    /\ m_default_size' = w.def
    /\ m_font_cache'   = w.cache
    /\ envFonts'       = w.env
    /\ skinFont'       = w.skin
    /\ nextHandle'     = w.next
    /\ drops'          = w.drops
    /\ status'         = w.status

Step(ev) ==
    /\ prev' = last
    /\ last' = ev
    /\ ops'  = ops + 1

-----------------------------------------------------------------------------
(* The configurations and asset stores explored *)

PATH_F_PNG   == <<"f", ".", "p", "n", "g">>
PATH_F_TTF   == <<"f", ".", "t", "t", "f">>
PATH_F_NODOT == <<"f">>
PATH_F_UPPER == <<"f", ".", "P", "N", "G">>
PATH_F_OTHER == <<"f", ".", "b", "m", "p">>
PATH_M_PNG   == <<"m", ".", "p", "n", "g">>
PATH_B_TTF   == <<"b", ".", "t", "t", "f">>

\* the file a sized candidate names
Sized(stem, n, ext) == stem \o <<"_">> \o DecimalU32(n) \o ext

SettingValues ==
    [freetype |-> BOOLEAN,
     font_size |-> {1, 2},
     fallback_font_size |-> {1},
     mono_font_size |-> {1},
     font_path |-> {PATH_F_PNG, PATH_F_TTF, PATH_F_NODOT},
     fallback_font_path |-> {PATH_B_TTF},
     mono_font_path |-> {PATH_M_PNG},
     \* the *_shadow_alpha settings are registered and read exactly as these
     font_shadow |-> {0},
     fallback_font_shadow |-> {0},
     mono_font_shadow |-> {0},
     \* in halves: 0.5 and 1.0
     gui_scaling |-> {1, 2},
     screen_dpi |-> {1}]

SettingNames == DOMAIN SettingValues

\* every configuration of the values above
Configurations ==
    [freetype : SettingValues.freetype,
     font_size : SettingValues.font_size,
     fallback_font_size : SettingValues.fallback_font_size,
     mono_font_size : SettingValues.mono_font_size,
     font_path : SettingValues.font_path,
     fallback_font_path : SettingValues.fallback_font_path,
     mono_font_path : SettingValues.mono_font_path,
     font_shadow : SettingValues.font_shadow,
     fallback_font_shadow : SettingValues.fallback_font_shadow,
     mono_font_shadow : SettingValues.mono_font_shadow,
     gui_scaling : SettingValues.gui_scaling,
     screen_dpi : SettingValues.screen_dpi]

\* files that may be on disk, each with what it holds: a bitmap font the GUI
\* environment can load, an outline font freetype can load, or neither
MainFiles ==
    { <<Sized(<<"f">>, 1, EXT_PNG), "bitmap">>,
      <<Sized(<<"f">>, 1, EXT_PNG), "junk">>,
      <<PATH_F_PNG, "bitmap">>,
      <<PATH_F_TTF, "ttf">>,
      <<PATH_B_TTF, "ttf">>,
      <<PATH_DEFAULT, "ttf">> }

NoFiles == [q \in {} |-> "junk"]

RECURSIVE Stores(_, _)
\* the stores of at most n files drawn from U
Stores(U, n) ==
    IF n = 0 THEN {NoFiles}
    ELSE LET fewer == Stores(U, n - 1)
         IN  fewer \cup
             UNION { { F @@ (u[1] :> u[2]) :
                         u \in {v \in U : v[1] \notin DOMAIN F} } :
                     F \in fewer }

RequestSizes == {1, FONT_SIZE_UNSPECIFIED}

Constructed(S, F, nf, uf) ==
    \E w \in {Construct(S, F, nf, uf)} :
        /\ Running(w)
        /\ settings = S
        /\ files = F
        /\ needs_fallback = nf
        /\ use_freetype = uf
        /\ callbacks = RegisteredCallbacks(w.cur)
        /\ m_currentMode = w.cur
        /\ m_default_size = w.def
        /\ m_font_cache = w.cache
        /\ envFonts = w.env
        /\ skinFont = w.skin
        /\ nextHandle = w.next
        /\ drops = w.drops
        /\ status = w.status
        /\ last = Event("construct", "", FONT_SIZE_UNSPECIFIED, FM_Unspecified,
                        NoResult, w, TRUE, NewEngine)
        /\ prev = NoEvent
        /\ ops = 0

\* the engine just constructed, for every configuration, store, locale and build
Init ==
    \E S \in Configurations, F \in Stores(MainFiles, MaxFiles),
       nf \in BOOLEAN, uf \in BOOLEAN :
        \* a build without freetype is explored under the default locale only
        /\ uf \/ ~nf
        /\ Constructed(S, F, nf, uf)

\* a caller asks for a font
GetFont(font_size, mode) ==
    /\ status = "running"
    /\ \E r \in {getFont(Engine, settings, files, use_freetype, font_size, mode)} :
           /\ Becomes(r.w)
           /\ Step(Event("getFont", "", font_size, mode, r, r.w, FALSE, Engine))
    /\ UNCHANGED <<settings, files, needs_fallback, use_freetype, callbacks>>

\* Settings::set(name, value): the value is stored, then the callbacks
\* registered for that name run (font_setting_changed calls readSettings)
SetSetting(name, value) ==
    /\ status = "running"
    /\ \E S \in {[settings EXCEPT ![name] = value]}, handled \in {name \in callbacks} :
       \E w \in {IF handled
                  THEN readSettings(Engine, S, files, needs_fallback, use_freetype)
                  ELSE Engine} :
           /\ settings' = S
           /\ Becomes(w)
           /\ Step([Event("set", name, FONT_SIZE_UNSPECIFIED, FM_Unspecified,
                          NoResult, w, handled, Engine)
                        EXCEPT !.changed = (settings[name] # value)])
    /\ UNCHANGED <<files, needs_fallback, use_freetype, callbacks>>

\* a caller measures text: getTextHeight, getTextWidth or getLineHeight
Measure(which, font_size, mode) ==
    /\ status = "running"
    /\ \E r \in {getTextFont(Engine, settings, files, use_freetype,
                              font_size, mode)} :
           /\ Becomes(r.w)
           /\ Step([Event(which, "", font_size, mode, r, r.w, FALSE, Engine)
                        EXCEPT !.used = r.used])
    /\ UNCHANGED <<settings, files, needs_fallback, use_freetype, callbacks>>

\* a file appears in the asset store
AddFile(path, kind) ==
    /\ status = "running"
    /\ path \notin DOMAIN files
    /\ Cardinality(DOMAIN files) < MaxFiles
    /\ files' = files @@ (path :> kind)
    /\ Step(Event("store", "", FONT_SIZE_UNSPECIFIED, FM_Unspecified,
                  NoResult, Engine, FALSE, Engine))
    /\ UNCHANGED <<settings, needs_fallback, use_freetype, callbacks,
                   m_currentMode, m_default_size, m_font_cache, envFonts,
                   skinFont, nextHandle, drops, status>>

\* a file disappears from the asset store
RemoveFile(path) ==
    /\ status = "running"
    /\ path \in DOMAIN files
    /\ files' = [q \in DOMAIN files \ {path} |-> files[q]]
    /\ Step(Event("store", "", FONT_SIZE_UNSPECIFIED, FM_Unspecified,
                  NoResult, Engine, FALSE, Engine))
    /\ UNCHANGED <<settings, needs_fallback, use_freetype, callbacks,
                   m_currentMode, m_default_size, m_font_cache, envFonts,
                   skinFont, nextHandle, drops, status>>

\* FontEngine::~FontEngine
Destroy ==
    /\ status = "running"
    /\ \E w \in {[cleanCache(Engine) EXCEPT !.status = "destroyed"]} :
           /\ Becomes(w)
           /\ Step(Event("destroy", "", FONT_SIZE_UNSPECIFIED, FM_Unspecified,
                         NoResult, w, FALSE, Engine))
    /\ UNCHANGED <<settings, files, needs_fallback, use_freetype, callbacks>>

Next ==
    \/ \E font_size \in RequestSizes, mode \in RequestModes :
          ops < MaxOps /\ GetFont(font_size, mode)
    \/ \E name \in SettingNames : \E value \in SettingValues[name] :
          ops < MaxOps /\ SetSetting(name, value)
    \/ \E u \in MainFiles : ops < MaxOps /\ AddFile(u[1], u[2])
    \/ \E path \in DOMAIN files : ops < MaxOps /\ RemoveFile(path)
    \/ ops < MaxOps /\ Destroy

Spec == Init /\ [][Next]_vars

-----------------------------------------------------------------------------
(* The search specification: the discrete-asset search as a function of the  *)
(* requested size and the asset store.  An engine without outline backend is *)
(* constructed over every store of sized assets, and asked for one font.     *)

SearchConfigurations ==
    [freetype : {FALSE},
     font_size : {1},
     fallback_font_size : {1},
     mono_font_size : {1},
     font_path : {PATH_F_PNG, PATH_F_UPPER, PATH_F_OTHER},
     fallback_font_path : {PATH_B_TTF},
     mono_font_path : {PATH_M_PNG},
     font_shadow : {0},
     fallback_font_shadow : {0},
     mono_font_shadow : {0},
     gui_scaling : {2},
     screen_dpi : {1}]

\* the largest size a sized asset of the search specification is baked at
MaxBaked == MaxSearchSize + MAX_FONT_SIZE_OFFSET

SearchFiles ==
    { <<Sized(<<"f">>, n, ext), "bitmap">> :
          n \in 0..MaxBaked, ext \in {EXT_PNG, EXT_XML} }
    \cup { <<Sized(<<"f">>, n, EXT_PNG), "junk">> : n \in 0..MaxSearchSize }
    \cup { <<Sized(<<"f">>, -1, EXT_PNG), "bitmap">>,
           <<Sized(PATH_F_OTHER, 1, EXT_PNG), "bitmap">>,
           <<PATH_F_PNG, "bitmap">>,
           <<PATH_F_OTHER, "bitmap">> }

SearchInit ==
    \E S \in SearchConfigurations, F \in Stores(SearchFiles, MaxSearchFiles) :
        Constructed(S, F, FALSE, TRUE)

SearchNext ==
    \E font_size \in 0..MaxSearchSize :
        last.op = "construct" /\ GetFont(font_size, FM_Simple)

SearchSpec == SearchInit /\ [][SearchNext]_vars

-----------------------------------------------------------------------------
(* The measurement specification: the three text measurements on every engine *)
(* the main specification starts from, after at most one change of the store. *)

MeasureOps == {"getTextHeight", "getTextWidth", "getLineHeight"}

\* the modes measured in: the default, an outline mode, the mono mode that is
\* downgraded without outline backend, and a discrete mode
MeasureModes == {FM_Unspecified, FM_Standard, FM_Mono, FM_Simple}

MeasureNext ==
    \/ \E which \in MeasureOps, font_size \in RequestSizes, mode \in MeasureModes :
          ops < MaxMeasureOps /\ Measure(which, font_size, mode)
    \/ \E path \in DOMAIN files :
          ops < MaxMeasureOps /\ last.op = "construct" /\ RemoveFile(path)

MeasureSpec == Init /\ [][MeasureNext]_vars

-----------------------------------------------------------------------------
(* The switching specification: longer runs of requests and of changes of    *)
(* 'freetype' and 'gui_scaling' over one store, so that the active mode      *)
(* switches between outline and discrete in both directions ('freetype' has  *)
(* no callback; the next change of 'gui_scaling' applies it).                *)

SwitchConfigurations ==
    [freetype : BOOLEAN,
     font_size : {2},
     fallback_font_size : {1},
     mono_font_size : {1},
     font_path : {PATH_F_PNG},
     fallback_font_path : {PATH_B_TTF},
     mono_font_path : {PATH_M_PNG},
     font_shadow : {0},
     fallback_font_shadow : {0},
     mono_font_shadow : {0},
     gui_scaling : {1, 2},
     screen_dpi : {1}]

\* an outline font for every outline mode, a bitmap font for mode Simple
SwitchFiles == (PATH_B_TTF :> "ttf") @@ (PATH_F_PNG :> "bitmap")

SwitchInit ==
    \E S \in SwitchConfigurations, nf \in BOOLEAN, uf \in BOOLEAN :
        /\ uf \/ ~nf
        /\ Constructed(S, SwitchFiles, nf, uf)

SwitchNext ==
    \/ \E font_size \in RequestSizes, mode \in RequestModes :
          ops < MaxSwitchOps /\ GetFont(font_size, mode)
    \/ \E name \in {"freetype", "gui_scaling"} :
          \E value \in SettingValues[name] :
              ops < MaxSwitchOps /\ SetSetting(name, value)

SwitchSpec == SwitchInit /\ [][SwitchNext]_vars

-----------------------------------------------------------------------------
(* Properties *)

OutlineModes  == {FM_Standard, FM_Fallback, FM_Mono}
DiscreteModes == {FM_Simple, FM_SimpleMono}

\* the last two operations were the same getFont request, and both returned
SameRequestTwice ==
    /\ prev.op = "getFont" /\ last.op = "getFont"
    /\ prev.size = last.size /\ prev.mode = last.mode
    /\ prev.status = "running" /\ last.status = "running"

ReadSettingsCompleted ==
    /\ last.op \in {"set", "construct"}
    /\ last.handled
    /\ status = "running"

\* the mode and the default size section 4.5 prescribes for the settings
ActiveModeOf(S) ==
    IF use_freetype /\ S.freetype
    THEN (IF needs_fallback THEN FM_Fallback ELSE FM_Standard)
    ELSE FM_Simple

DefaultSizeOf(S, mode) ==
    CASE mode = FM_Fallback -> S.fallback_font_size
      [] mode \in {FM_Mono, FM_SimpleMono} -> S.mono_font_size
      [] OTHER -> S.font_size

\* C2: when readSettings completes, every entry the cache held before it, in
\* every mode, is gone and its handle was released; the cache holds at most
\* the entry for (active mode, default size of the active mode), computed from
\* the new settings, and that entry was created after the flush.
C2_FlushAndRebuild ==
    ReadSettingsCompleted =>
        /\ \A e \in last.before :
              /\ e.font \in DOMAIN drops
              /\ drops[e.font] > last.dropsBefore[e.font]
        /\ m_currentMode = ActiveModeOf(settings)
        /\ \A e \in m_font_cache :
              /\ e.mode = ActiveModeOf(settings)
              /\ e.size = DefaultSizeOf(settings, e.mode)
              /\ last.created >= 1
              /\ last.cmode = e.mode /\ last.csize = e.size
        /\ Cardinality(m_font_cache) <= 1

\* a settings change flushed entries of two modes and rebuilt the default font
C2_Witness ==
    /\ ReadSettingsCompleted
    /\ last.op = "set"
    /\ \E e \in last.before : e.mode # m_currentMode
    /\ \E e \in last.before : e.mode = m_currentMode
    /\ m_font_cache # {}

\* C3: with active mode Simple, getFont looks up SimpleMono for a request of
\* Mono or SimpleMono and Simple for every other request, creates only with
\* the discrete-asset strategy, and caches under the downgraded mode; with
\* another active mode a requested mode is used unchanged and Unspecified is
\* replaced by the active mode.
C3_ModeNormalization ==
    last.op = "getFont" =>
        /\ m_currentMode = FM_Simple =>
              /\ last.mode \in {FM_Mono, FM_SimpleMono}
                    => last.kmode = FM_SimpleMono
              /\ last.mode \in {FM_Standard, FM_Fallback, FM_Simple,
                                 FM_Unspecified}
                    => last.kmode = FM_Simple
              /\ last.strategy # "outline"
              /\ status # "abort_assert"
        /\ m_currentMode # FM_Simple =>
              /\ last.mode # FM_Unspecified => last.kmode = last.mode
              /\ last.mode = FM_Unspecified => last.kmode = m_currentMode
        /\ last.created > 0 => last.cmode = last.kmode
        /\ last.font # NullFont =>
              [mode |-> last.kmode, size |-> last.ksize, font |-> last.font]
                  \in m_font_cache

\* a Mono request downgraded to SimpleMono, and a Standard one to Simple
C3_Witness ==
    /\ last.op = "getFont" /\ prev.op = "getFont"
    /\ m_currentMode = FM_Simple
    /\ prev.mode = FM_Mono /\ prev.kmode = FM_SimpleMono
    /\ last.mode = FM_Standard /\ last.kmode = FM_Simple
    /\ last.font # NullFont

\* what the properties below say about files and paths, in their own terms

Abs(n) == IF n < 0 THEN -n ELSE n

\* the file exists and the GUI environment can load it as a bitmap font
Usable(path) == path \in DOMAIN files /\ files[path] = "bitmap"

\* the file exists and the outline backend can instantiate it
Instantiates(path) == path \in DOMAIN files /\ files[path] = "ttf"

\* the configured path without its .png or .xml ending
Stem(font_path) ==
    CASE font_path \in {PATH_F_PNG, PATH_F_UPPER} -> <<"f">>
      [] font_path = PATH_M_PNG -> <<"m">>
      [] OTHER -> font_path

\* the configured path the discrete strategy reads in a mode
DiscretePath(S, mode) ==
    IF mode = FM_SimpleMono THEN S.mono_font_path ELSE S.font_path

\* the i-th of the 40 candidates: counter z = 0..19, magnitude z >> 1,
\* negative when z is odd, and inside each z .png before .xml
SearchOrder(stem, size) ==
    [i \in 1..40 |->
        LET z == (i - 1) \div 2
        IN  Sized(stem,
                  IF z % 2 = 1 THEN size - (z \div 2) ELSE size + (z \div 2),
                  IF i % 2 = 1 THEN EXT_PNG ELSE EXT_XML)]

\* C4: the sized search probes the candidates in the order z = 0..19, .png
\* before .xml; the font selected is the first candidate that exists and loads
\* and nothing after it is probed (all 40 are probed, then the configured path
\* itself, when none does); hence no usable asset is nearer to the size than
\* the selected one, nor at the same distance and larger.
C4_SearchOrder ==
    (last.op = "getFont" /\ last.strategy = "simple" /\ status = "running") =>
        LET stem  == Stem(settings.font_path)
            size  == last.csize
            order == SearchOrder(stem, size)
            hits  == {i \in 1..40 : Usable(order[i])}
        IN  /\ hits = {} =>
                /\ last.probes = order
                /\ last.direct
                /\ last.font = IF Usable(settings.font_path)
                               THEN BitmapFont(settings.font_path)
                               ELSE NullFont
            /\ hits # {} =>
                LET first == CHOOSE i \in hits : \A j \in hits : i <= j
                IN  /\ last.probes = SubSeq(order, 1, first)
                    /\ ~last.direct
                    /\ last.font = BitmapFont(order[first])
                    /\ \E k \in -9..9, e \in {EXT_PNG, EXT_XML} :
                          /\ last.font.path = Sized(stem, size + k, e)
                          /\ \A d \in -9..9, e2 \in {EXT_PNG, EXT_XML} :
                                Usable(Sized(stem, size + d, e2)) =>
                                    \/ Abs(d) > Abs(k)
                                    \/ Abs(d) = Abs(k) /\ d <= k

\* assets only at offsets +4 and -3 of the requested size: -3 is selected
C4_Witness ==
    /\ last.op = "getFont" /\ last.strategy = "simple"
    /\ last.csize = 3
    /\ DOMAIN files = {Sized(<<"f">>, 7, EXT_PNG), Sized(<<"f">>, 0, EXT_PNG)}
    /\ Usable(Sized(<<"f">>, 7, EXT_PNG)) /\ Usable(Sized(<<"f">>, 0, EXT_PNG))
    /\ last.font = BitmapFont(Sized(<<"f">>, 0, EXT_PNG))
    /\ Len(last.probes) = 15

\* the pixel size of the size getFont looked up
LastPixelSize == (settings.screen_dpi * settings.gui_scaling * last.ksize) \div 2

\* C5 as stated: a getFont request in any mode whose size resolves to 0
\* pixels ends the process; it returns neither a handle nor "no font".
C5_Original ==
    (last.op = "getFont" /\ LastPixelSize = 0) => status # "running"

\* C5 as amended: a getFont request whose size resolves to 0 pixels ends the
\* process when its normalized mode is Standard, Fallback or Mono, and then
\* nothing is cached; in mode Simple or SimpleMono there is no such test: the
\* request never takes the zero-size fatal path and the sized search starts
\* at size 0.
C5_ZeroSize ==
    (last.op = "getFont" /\ LastPixelSize = 0) =>
        /\ last.kmode \in OutlineModes =>
              /\ status = "abort_zero_size"
              /\ last.font = NullFont
              /\ m_font_cache = last.before
        /\ last.kmode \in DiscreteModes =>
              /\ status # "abort_zero_size"
              /\ last.probes # <<>> =>
                    last.probes[1] =
                        Sized(Stem(DiscretePath(settings, last.kmode)), 0, EXT_PNG)

\* an outline request of zero pixels ended the process
C5_Witness ==
    /\ last.op = "getFont"
    /\ last.kmode \in OutlineModes
    /\ LastPixelSize = 0
    /\ status = "abort_zero_size"

\* C6 as stated: a getFont request in mode Simple or SimpleMono returns
\* normally, with a handle or "no font", for every configured path, size and
\* asset store.
C6_NeverAborts ==
    (last.op = "getFont" /\ last.kmode \in DiscreteModes) => status = "running"

\* the candidates of the outline strategy: (a) the mode-prefixed configured
\* path, (b) the fallback mode's configured path, (c) the compiled-in default
\* of the mode-prefixed key
OutlineOrder(S, mode) ==
    CASE mode = FM_Fallback ->
            <<S.fallback_font_path, S.fallback_font_path, PATH_DEFAULT_FALLBACK>>
      [] mode = FM_Mono ->
            <<S.mono_font_path, S.fallback_font_path, PATH_DEFAULT_MONO>>
      [] OTHER ->
            <<S.font_path, S.fallback_font_path, PATH_DEFAULT>>

\* C7: the outline strategy tries (a), (b), (c) in this order, stops at the
\* first that instantiates and caches it under (mode, requested size); when
\* all three fail the process aborts; a getFont request whose normalized mode
\* is Standard, Fallback or Mono that returns, returns a handle.
C7_OutlineCandidates ==
    (last.op = "getFont" /\ last.kmode \in OutlineModes) =>
        /\ status \in {"running", "abort_zero_size", "abort_no_font"}
        /\ status = "running" =>
              /\ last.font # NullFont
              /\ [mode |-> last.kmode, size |-> last.ksize, font |-> last.font]
                     \in m_font_cache
        /\ (last.strategy = "outline" /\ status # "abort_zero_size") =>
              LET exp == OutlineOrder(settings, last.kmode)
                  n   == Len(last.tried)
              IN  /\ n \in 1..3
                  /\ \A i \in 1..n : last.tried[i] = exp[i]
                  /\ \A i \in 1..(n - 1) : ~Instantiates(exp[i])
                  /\ status = "running" =>
                        /\ Instantiates(exp[n])
                        /\ last.font.path = exp[n]
                        /\ last.cmode = last.kmode /\ last.csize = last.ksize
                  /\ status = "abort_no_font" =>
                        /\ n = 3
                        /\ ~Instantiates(exp[3])

\* (a) and (b) failed and the compiled-in default was instantiated
C7_Witness ==
    /\ last.op = "getFont" /\ last.strategy = "outline"
    /\ status = "running"
    /\ Len(last.tried) = 3
    /\ last.font # NullFont /\ last.font.path = last.tried[3]

\* an asset the discrete strategy accepts for (mode, size) is in the store:
\* a sized candidate of the configured path or the configured path itself
MatchingAsset(S, mode, size) ==
    LET font_path == DiscretePath(S, mode)
        pixels    == (S.screen_dpi * S.gui_scaling * size) \div 2
    IN  /\ font_path \in {PATH_F_PNG, PATH_F_UPPER, PATH_F_OTHER, PATH_M_PNG}
        /\ \/ Usable(font_path)
           \/ \E k \in -9..9, e \in {EXT_PNG, EXT_XML} :
                 Usable(Sized(Stem(font_path), pixels + k, e))

\* C8: a getFont request in mode Simple or SimpleMono whose key is not cached
\* runs the creation strategy; when it finds no loadable asset the cache is
\* left as it was, with no entry for the key, so the next identical request
\* runs the strategy again; when a matching asset is in the store the request
\* returns a handle and the handle is cached under the key.
C8_FailureNotCached ==
    (last.op = "getFont" /\ last.kmode \in DiscreteModes /\ status = "running") =>
        /\ (\A e \in last.before :
                ~(e.mode = last.kmode /\ e.size = last.ksize)) =>
              /\ last.created = 1
              /\ last.strategy = "simple"
        /\ last.font = NullFont =>
              /\ m_font_cache = last.before
              /\ \A e \in m_font_cache :
                    ~(e.mode = last.kmode /\ e.size = last.ksize)
        /\ MatchingAsset(settings, last.kmode, last.ksize) =>
              /\ last.font # NullFont
              /\ [mode |-> last.kmode, size |-> last.ksize, font |-> last.font]
                     \in m_font_cache

\* the default font could not be created at construction; an asset appeared;
\* the request of the constructor, made again, created and cached the font
C8_Witness ==
    /\ prev.op = "store" /\ last.op = "getFont"
    /\ last.kmode \in DiscreteModes
    /\ last.size = FONT_SIZE_UNSPECIFIED /\ last.mode = FM_Unspecified
    /\ last.before = {}
    /\ ~last.hit /\ last.created = 1
    /\ last.font # NullFont
    /\ m_font_cache =
           {[mode |-> last.kmode, size |-> last.ksize, font |-> last.font]}

\* C9 as stated: every change of a relevant setting after construction leads
\* to readSettings being run, whatever the active mode was at construction.
C9_EveryChangeHandled ==
    (last.op = "set" /\ last.changed) => last.handled

\* C10 as stated, in two consequences: no flush releases a handle more than
\* once, also when two keys hold the same handle; and once the engine is torn
\* down every handle the cache ever held has been released.
C10_ReleasedOnce ==
    /\ \A f \in DOMAIN drops :
          drops[f] <= 1 + (IF f \in DOMAIN last.dropsBefore
                           THEN last.dropsBefore[f] ELSE 0)
    /\ status = "destroyed" => \A f \in DOMAIN drops : drops[f] >= 1

\* C11: a text measurement uses the handle getFont returns for its (size,
\* mode) when there is one and the skin's current font otherwise, never no
\* font at all; it ends the process only when both are absent (or getFont
\* itself does); it changes the cache only as that getFont call does, adding
\* at most the entry of the key and releasing nothing.
C11_MeasureFont ==
    last.op \in MeasureOps =>
        /\ (status = "running" /\ last.font # NullFont) => last.used = last.font
        /\ (status = "running" /\ last.font = NullFont) =>
              /\ last.used = skinFont
              /\ m_font_cache = last.before
        /\ status = "running" => last.used # NullFont
        /\ status = "abort_no_measure_font" =>
              last.font = NullFont /\ skinFont = NullFont
        /\ status # "running" =>
              status \in {"abort_no_measure_font", "abort_zero_size",
                          "abort_no_font", "exception"}
        /\ last.font # NullFont =>
              [mode |-> last.kmode, size |-> last.ksize, font |-> last.font]
                  \in m_font_cache
        /\ last.before \subseteq m_font_cache
        /\ \A e \in m_font_cache \ last.before :
              e.mode = last.kmode /\ e.size = last.ksize
        /\ \A f \in DOMAIN last.dropsBefore : drops[f] = last.dropsBefore[f]

\* a measurement with the cached font, then one that fell back to the skin
C11_Witness ==
    /\ prev.op \in MeasureOps /\ last.op \in MeasureOps
    /\ prev.font # NullFont /\ prev.used = prev.font
    /\ last.font = NullFont /\ last.used = skinFont /\ last.used # NullFont
    /\ status = "running"

\* C12: the cache holds at most one entry per (mode, size); a getFont call
\* that hits invokes no creation strategy and leaves the cache as it was; one
\* that misses keeps every entry there was, adds at most the entry of its own
\* normalized (mode, size) key, and releases no handle.
C12_CacheOnlyGrows ==
    /\ \A e1, e2 \in m_font_cache :
          (e1.mode = e2.mode /\ e1.size = e2.size) => e1 = e2
    /\ last.op = "getFont" =>
          /\ last.hit =>
                /\ last.created = 0
                /\ m_font_cache = last.before
                /\ \E e \in last.before :
                      e.mode = last.kmode /\ e.size = last.ksize
          /\ ~last.hit =>
                /\ last.before \subseteq m_font_cache
                /\ Cardinality(m_font_cache \ last.before) <= 1
                /\ \A e \in m_font_cache \ last.before :
                      e.mode = last.kmode /\ e.size = last.ksize
          /\ DOMAIN last.dropsBefore \subseteq DOMAIN drops
          /\ \A f \in DOMAIN last.dropsBefore : drops[f] = last.dropsBefore[f]

\* two getFont calls in a row each added an entry to a cache that held one
C12_Witness ==
    /\ prev.op = "getFont" /\ last.op = "getFont"
    /\ ~prev.hit /\ ~last.hit
    /\ prev.before # {}
    /\ prev.before \subseteq last.before
    /\ Cardinality(last.before) = Cardinality(prev.before) + 1
    /\ Cardinality(m_font_cache) = Cardinality(last.before) + 1

\* the decimal numeral of a mathematical integer
Numeral(n) == IF n < 0 THEN <<"-">> \o Decimal(-n) ELSE Decimal(n)

\* C13 as stated: every candidate the sized search probes is named stem, "_",
\* the integer pixel size + offset with offset in -9..9, extension; no name
\* carries a value wrapped around 2^32.
C13_NoWrapAround ==
    (last.op = "getFont" /\ last.strategy = "simple") =>
        \A i \in DOMAIN last.probes :
            \E k \in -9..9, e \in {EXT_PNG, EXT_XML} :
                last.probes[i] =
                    Stem(settings.font_path) \o <<"_">>
                        \o Numeral(last.csize + k) \o e

\* the loadable sized assets of stem "f" in the store, by their size
SizedAssets ==
    {n \in -1..MaxBaked :
        \E e \in {EXT_PNG, EXT_XML} : Usable(Sized(<<"f">>, n, e))}

\* C14 as stated: when the only loadable sized asset lies at a distance of at
\* most MAX_FONT_SIZE_OFFSET from the pixel size, the search selects it.
C14_DistanceCovered ==
    (/\ last.op = "getFont" /\ last.strategy = "simple"
     /\ settings.font_path \in {PATH_F_PNG, PATH_F_UPPER}) =>
        \A n \in 0..MaxBaked :
            (SizedAssets = {n} /\ Abs(n - last.csize) <= MAX_FONT_SIZE_OFFSET) =>
                /\ last.font # NullFont
                /\ \E e \in {EXT_PNG, EXT_XML} :
                      last.font = BitmapFont(Sized(<<"f">>, n, e))

\* the path ends in .ttf, in any letter case
EndsInTtf(path) ==
    /\ Len(path) >= 4
    /\ lowercase(SubSeq(path, Len(path) - 3, Len(path))) = EXT_TTF

\* m_env->getFont gives a font for the path: the file exists, and it is a
\* bitmap font or the environment still keeps the font it once loaded from it
Loads(path) ==
    /\ path \in DOMAIN files
    /\ files[path] = "bitmap" \/ path \in envFonts

\* a sized candidate the search probed has loaded
SizedLoaded == \E i \in DOMAIN last.probes : Loads(last.probes[i])

\* C15 as stated: whenever a discrete-asset creation ends without a sized
\* candidate having loaded, the configured path itself was tried, for every
\* configured path.
C15_Original ==
    (/\ last.op = "getFont" /\ last.strategy = "simple"
     /\ status = "running" /\ ~SizedLoaded) => last.direct

\* C15 as amended: for a configured path ending in .ttf the creation returns
\* at once: nothing is probed, the path is not tried, no font, cache unchanged.
\* For any other path, when the sized search ends without a loaded candidate
\* the configured path itself is tried, and only then; a handle obtained so is
\* cached under the requested (mode, size); when this load fails too getFont
\* returns "no font" and the cache is unchanged.
C15_DirectLoad ==
    (last.op = "getFont" /\ last.strategy = "simple" /\ status = "running") =>
        LET path == DiscretePath(settings, last.cmode)
        IN  /\ EndsInTtf(path) =>
                  /\ last.probes = <<>> /\ ~last.direct
                  /\ last.font = NullFont
                  /\ m_font_cache = last.before
            /\ ~EndsInTtf(path) =>
                  /\ last.direct = ~SizedLoaded
                  /\ ~SizedLoaded =>
                        last.font = IF Loads(path) THEN BitmapFont(path)
                                    ELSE NullFont
                  /\ last.font # NullFont =>
                        [mode |-> last.kmode, size |-> last.ksize,
                         font |-> last.font] \in m_font_cache
                  /\ last.font = NullFont => m_font_cache = last.before

\* no sized candidate loaded and the configured path itself gave the font
C15_Witness ==
    /\ last.op = "getFont" /\ last.strategy = "simple"
    /\ last.direct /\ ~SizedLoaded
    /\ last.font = BitmapFont(settings.font_path)
    /\ [mode |-> FM_Simple, size |-> last.ksize, font |-> last.font]
           \in m_font_cache

ConcreteModes == {FM_Standard, FM_Fallback, FM_Mono, FM_Simple, FM_SimpleMono}

\* C16: the active mode is Standard, Fallback or Simple, never Unspecified;
\* every key getFont looks up, every cache entry and every (mode, size) given
\* to a creation strategy has a concrete mode and a concrete size; no
\* assertion of initFont or initSimpleFont fails, across switches between
\* outline and discrete configurations.
C16_ConcreteKeys ==
    /\ m_currentMode \in {FM_Standard, FM_Fallback, FM_Simple}
    /\ status # "abort_assert"
    /\ \A e \in m_font_cache :
          e.mode \in ConcreteModes /\ e.size # FONT_SIZE_UNSPECIFIED
    /\ last.created > 0 =>
          /\ last.cmode \in ConcreteModes
          /\ last.csize # FONT_SIZE_UNSPECIFIED
          /\ last.strategy = "simple" => last.cmode \in DiscreteModes
          /\ last.strategy = "outline" => last.cmode \in OutlineModes
    /\ last.op = "getFont" =>
          /\ last.kmode \in ConcreteModes
          /\ last.ksize # FONT_SIZE_UNSPECIFIED

\* an engine constructed in mode Simple, switched to Standard, creates the
\* Mono font of default size
C16_Witness ==
    /\ "font_size" \notin callbacks /\ "fallback_font_size" \notin callbacks
    /\ m_currentMode = FM_Standard
    /\ last.op = "getFont"
    /\ last.mode = FM_Mono /\ last.size = FONT_SIZE_UNSPECIFIED
    /\ last.created = 1 /\ last.strategy = "outline"
    /\ last.cmode = FM_Mono /\ last.csize = settings.mono_font_size
    /\ status = "running"

\* C17: while the active mode is Simple no getFont request and no
\* readSettings invokes the outline strategy, and the cache holds no entry of
\* Standard, Fallback or Mono; a build without outline backend is always in
\* mode Simple, and the abort "outline backend not compiled in" is never
\* reached.
C17_NoOutlineInSimple ==
    /\ status # "abort_no_freetype"
    /\ ~use_freetype => m_currentMode = FM_Simple
    /\ m_currentMode = FM_Simple =>
          /\ \A e \in m_font_cache : e.mode \in DiscreteModes
          /\ last.op \in {"getFont", "set", "construct"} =>
                /\ last.strategy # "outline"
                /\ last.tried = <<>>
                /\ last.created > 0 => last.cmode \in DiscreteModes

\* an engine constructed with outline fonts, switched to Simple, serves a
\* Fallback request with the discrete strategy
C17_Witness ==
    /\ ("font_size" \in callbacks \/ "fallback_font_size" \in callbacks)
    /\ m_currentMode = FM_Simple
    /\ last.op = "getFont" /\ last.mode = FM_Fallback
    /\ last.kmode = FM_Simple
    /\ last.created = 1 /\ last.strategy = "simple"
    /\ last.font # NullFont

\* C18 as stated: when readSettings has completed, the skin's font is not a
\* handle the cache released and no longer holds; when the default font of
\* the active mode was recreated the skin's font is that cached handle.
C18_SkinNotReleased ==
    ReadSettingsCompleted =>
        /\ (skinFont \in DOMAIN drops /\ drops[skinFont] > 0) =>
              \E e \in m_font_cache : e.font = skinFont
        /\ \A e \in m_font_cache :
              (e.mode = m_currentMode /\ e.size = m_default_size[m_currentMode])
                  => skinFont = e.font

====
